---- MODULE Spec2Model ----
(***************************************************************************)
(* The fulfillment workflow of src/src/workflows/fulfillment.workflow.ts   *)
(* as a state machine.  The workflow function runs as one logical thread:  *)
(* its code between two awaits is one atomic step, and the signal handlers *)
(* run to completion while the main sequence is parked at an await         *)
(* (condition, sleep, or an activity call in flight).  pc names the await  *)
(* at which the main sequence is parked.                                   *)
(*                                                                         *)
(* Not modelled: the createdAt/updatedAt timestamps, the text of the       *)
(* tracking number, and the contents of the items (only their count).      *)
(***************************************************************************)
EXTENDS Integers, Sequences, FiniteSets, TLC

VARIABLES
    pc,                 \* the await at which fulfillmentWorkflow is parked
    fs,                 \* fulfillmentStatus
    fulfillmentRequest, \* the stored request, or Null
    isCancelled,
    cancellationReason,
    isPaused,
    itemsPicked,
    i,                  \* index of the picking loop
    releaseCalls,       \* inventoryActivities.releaseReservation calls issued
    emailCalls,         \* emailActivities.sendOrderCancellation calls issued
    signalCalls,        \* workflowActivities.signalFulfillmentWorkflow calls issued
    result,             \* the record the workflow returned, or Null
    request,            \* the request the starter sends to this instance
    prePause,           \* history: status, itemsPicked and pc when pause was handled,
                        \* kept while pause is the last signal handled
    disturbed,          \* history: a signal other than the first start, or an error, occurred
    unwound,            \* history: how the catch block classified the run
    cancels,            \* history: cancel deliveries counted by CancelDelivery
    \* processOrder of src/src/workflows/order.workflow.ts
    opc,                \* the await at which processOrder is parked
    status,
    currentStep,
    paymentId,
    shippingId,
    error,
    orderData,          \* the argument of processOrder
    reservationId,
    workflowError,      \* the error the catch block caught
    thrown,             \* the error processOrder re-threw
    ocalls,             \* the activity calls processOrder issued, in order
    cancelAccepted,     \* history: a cancelOrder signal was handled
    \* InventoryActivities of src/unnamed/part_005
    reservations,       \* the Map reservationId -> items (by their count)
    invLast,            \* history: the last activity call and how it ended
    releasedIds,        \* history: ids released and not reserved again since
    \* startFulfillmentWorkflow of src/src/activities/workflow.activities.ts
    bpc,                \* the await at which startFulfillmentWorkflow is parked
    bres,               \* what it returned or threw, or Null
    bcalls              \* the Temporal client calls it made, with their outcomes

\* the state of fulfillmentWorkflow
fvars == <<pc, fs, fulfillmentRequest, isCancelled, cancellationReason, isPaused,
           itemsPicked, i, releaseCalls, emailCalls, signalCalls, result, request,
           prePause, disturbed, unwound, cancels>>

\* the state of processOrder
ovars == <<opc, status, currentStep, paymentId, shippingId, error, orderData,
           reservationId, workflowError, thrown, ocalls, cancelAccepted>>

\* the state of InventoryActivities
ivars == <<reservations, invLast, releasedIds>>

\* the state of one startFulfillmentWorkflow call
bvars == <<bpc, bres, bcalls>>

vars == <<fvars, ovars, ivars, bvars>>

\* ---------------------------------------------------------------- bounds
MaxItems == 2

\* ---------------------------------------------------------------- values
Null == [null |-> TRUE]
NoValue == "undefined"

Reasons == {"customer request", "out of stock"}
Addresses == {"addr-A", "addr-B"}
ReservationLists == {<<>>, <<"RES-1", "RES-2">>}
OrderWorkflowIds == {NoValue, "order-wf-1"}

\* FulfillmentRequest (lines 39-55): items by their count.
Requests ==
    [items : 0..MaxItems,
     shippingAddress : {"addr-A"},
     reservationIds : ReservationLists,
     orderWorkflowId : OrderWorkflowIds]

Step(text) == [text |-> text, k |-> 0, n |-> 0]
\* `Picked ${itemsPicked}/${fulfillmentRequest.items.length} items`
PickedStep(k, n) == [text |-> "Picked k/n items", k |-> k, n |-> n]

TerminalStatuses == {"SHIPPED", "CANCELLED", "FAILED"}
InProgressStatuses == {"PICKING", "PACKING", "READY_TO_SHIP"}
PausedPcs == {"pickPaused", "qcPaused", "packPaused"}
SleepPcs == {"pickSleep", "qcSleep", "packSleep", "pickupSleep"}

\* ---------------------------------------------------------------- progress query
steps ==
    <<"Waiting for fulfillment request", "Starting order picking", "Picking items",
      "Quality check", "Packing items", "Generating shipping label",
      "Ready for pickup", "Shipped">>

\* steps.indexOf(text): 0-based, -1 when absent
IndexOf(text) ==
    IF \E j \in 1..Len(steps) : steps[j] = text
    THEN (CHOOSE j \in 1..Len(steps) : steps[j] = text) - 1
    ELSE -1

\* Math.round of the non-negative fraction p/q: halves round up
Round(p, q) == (2 * p + q) \div (2 * q)

Num(v) == [kind |-> "number", val |-> v]
NaN == [kind |-> "NaN", val |-> 0]
Infinity == [kind |-> "Infinity", val |-> 0]

\* percentage of getFulfillmentProgressQuery, for a step label, a stored
\* request (or Null) and a picked count
PercentageOf(step, req, picked) ==
    IF req = Null THEN Num(0)
    ELSE LET idx == IndexOf(step.text)
             n == req.items
         IN  IF n = 0
             THEN (IF picked = 0 THEN NaN ELSE Infinity)
             ELSE IF (idx + 1) * 100 * n >= picked * 50 * Len(steps)
                  THEN Num(Round((idx + 1) * 100, Len(steps)))
                  ELSE Num(Round(picked * 50, n))

Percentage == PercentageOf(fs.currentStep, fulfillmentRequest, itemsPicked)

\* ---------------------------------------------------------------- initial state
FulfillmentInit ==
    /\ pc = "waitStart"
    /\ fs = [status |-> "WAITING",
             currentStep |-> Step("Waiting for fulfillment request"),
             isPaused |-> FALSE,
             cancellationReason |-> NoValue,
             error |-> NoValue,
             trackingNumber |-> NoValue,
             shippingCarrier |-> NoValue,
             estimatedDelivery |-> NoValue]
    /\ fulfillmentRequest = Null
    /\ isCancelled = FALSE
    /\ cancellationReason = ""
    /\ isPaused = FALSE
    /\ itemsPicked = 0
    /\ i = 0
    /\ releaseCalls = <<>>
    /\ emailCalls = <<>>
    /\ signalCalls = <<>>
    /\ result = Null
    /\ request \in Requests
    /\ prePause = Null
    /\ disturbed = FALSE
    /\ unwound = "no"
    /\ cancels = 0

\* ---------------------------------------------------------------- signal handlers
\* Handlers run whenever the main sequence is parked at an await and the
\* workflow has not returned.
Parked == pc # "done"

SignalFrame == UNCHANGED <<pc, itemsPicked, i, releaseCalls, emailCalls, signalCalls,
                           result, request, unwound, cancels, ovars, ivars,
                           bvars>>

\* setHandler(startFulfillmentSignal, ...), lines 148-153.  The starter
\* (workflow.activities.ts:67-71) sends the instance's request; delivery
\* is at-least-once, so the same request may be handled again.
StartSignal ==
    /\ Parked
    /\ fulfillmentRequest' = request
    /\ fs' = [fs EXCEPT !.status = "PICKING",
                        !.currentStep = Step("Starting order picking")]
    /\ prePause' = Null
    /\ disturbed' = (disturbed \/ fulfillmentRequest # Null)
    /\ UNCHANGED <<isCancelled, cancellationReason, isPaused>>
    /\ SignalFrame

\* setHandler(pauseFulfillmentSignal, ...), lines 155-161
PauseSignal ==
    /\ Parked
    /\ isPaused' = TRUE
    /\ fs' = [fs EXCEPT !.isPaused = TRUE,
                        !.status = "PAUSED",
                        !.currentStep = Step("Fulfillment paused")]
    /\ prePause' = [status |-> fs.status, itemsPicked |-> itemsPicked, pc |-> pc]
    /\ disturbed' = TRUE
    /\ UNCHANGED <<fulfillmentRequest, isCancelled, cancellationReason>>
    /\ SignalFrame

\* setHandler(resumeFulfillmentSignal, ...), lines 163-169
ResumeSignal ==
    /\ Parked
    /\ isPaused' = FALSE
    /\ fs' = [fs EXCEPT !.isPaused = FALSE,
                        !.status = "PICKING",
                        !.currentStep = Step("Fulfillment resumed")]
    /\ prePause' = Null
    /\ disturbed' = TRUE
    /\ UNCHANGED <<fulfillmentRequest, isCancelled, cancellationReason>>
    /\ SignalFrame

\* setHandler(cancelFulfillmentSignal, ...), lines 171-177
CancelSignal ==
    /\ Parked
    /\ \E reason \in Reasons :
          /\ isCancelled' = TRUE
          /\ cancellationReason' = reason
          /\ fs' = [fs EXCEPT !.status = "CANCELLED",
                              !.cancellationReason = reason]
    /\ prePause' = Null
    /\ disturbed' = TRUE
    /\ UNCHANGED <<fulfillmentRequest, isPaused>>
    /\ SignalFrame

UpdateShippingAddressSignalNoGuard ==
    /\ Parked
    /\ \E newAddress \in Addresses :
          /\ fulfillmentRequest' =
                IF fulfillmentRequest # Null
                THEN [fulfillmentRequest EXCEPT !.shippingAddress = newAddress]
                ELSE fulfillmentRequest
          /\ fs' = [fs EXCEPT !.currentStep = Step("Shipping address updated")]
    /\ prePause' = Null
    /\ disturbed' = TRUE
    /\ UNCHANGED <<isCancelled, cancellationReason, isPaused>>
    /\ SignalFrame

\* setHandler(updateShippingAddressSignal, ...), lines 179-185
UpdateShippingAddressSignal ==
    /\ Parked
    /\ \E newAddress \in Addresses :
          IF fulfillmentRequest # Null
          THEN /\ fulfillmentRequest' =
                     [fulfillmentRequest EXCEPT !.shippingAddress = newAddress]
               /\ fs' = [fs EXCEPT !.currentStep = Step("Shipping address updated")]
          ELSE UNCHANGED <<fulfillmentRequest, fs>>
    /\ prePause' = Null
    /\ disturbed' = TRUE
    /\ UNCHANGED <<isCancelled, cancellationReason, isPaused>>
    /\ SignalFrame

\* ---------------------------------------------------------------- unwind (catch block)
Call(args) == [args |-> args, outcome |-> "pending"]
SetOutcome(calls, o) == [calls EXCEPT ![Len(calls)].outcome = o]

CompletionSignal(f) ==
    [fulfillmentWorkflowId |-> fulfillmentRequest.orderWorkflowId,
     signalName |-> "fulfillmentCompleted",
     args |-> f,
     outcome |-> "pending"]

\* line 347 and line 412: fulfillmentRequest?.orderWorkflowId
HasOrderWorkflowId ==
    /\ fulfillmentRequest # Null
    /\ fulfillmentRequest.orderWorkflowId # NoValue

\* lines 411-427 with the record f as it is when the step is reached
UnwindSignal(f) ==
    IF HasOrderWorkflowId
    THEN /\ signalCalls' = Append(signalCalls, CompletionSignal(f))
         /\ pc' = "signalFailed"
         /\ result' = result
    ELSE /\ pc' = "done"
         /\ result' = f
         /\ signalCalls' = signalCalls

ShouldSendCancellationNoPickCheck(picked) ==
    isCancelled /\ fulfillmentRequest # Null

\* line 388, itemsPicked being picked
ShouldSendCancellation(picked) ==
    isCancelled /\ fulfillmentRequest # Null /\ picked > 0

\* lines 387-409, then the signalling step
UnwindEmail(f, picked) ==
    IF ShouldSendCancellation(picked)
    THEN /\ emailCalls' = Append(emailCalls, Call(cancellationReason))
         /\ pc' = "email"
         /\ UNCHANGED <<signalCalls, result>>
    ELSE /\ emailCalls' = emailCalls
         /\ UnwindSignal(f)

\* line 373
ShouldRelease ==
    /\ fulfillmentRequest # Null
    /\ Len(fulfillmentRequest.reservationIds) > 0

\* lines 372-385, then the later steps
UnwindRelease(f, picked) ==
    IF ShouldRelease
    THEN /\ releaseCalls' = Append(releaseCalls, Call(fulfillmentRequest.reservationIds))
         /\ pc' = "release"
         /\ UNCHANGED <<emailCalls, signalCalls, result>>
    ELSE /\ releaseCalls' = releaseCalls
         /\ UnwindEmail(f, picked)

\* lines 365-369: the record as the catch block rewrites it
CatchStatusAlwaysFailed(f, msg) ==
    [f EXCEPT !.status = "FAILED",
              !.cancellationReason = IF isCancelled THEN cancellationReason ELSE NoValue,
              !.error = msg]

CatchStatus(f, msg) ==
    [f EXCEPT !.status = IF isCancelled THEN "CANCELLED" ELSE "FAILED",
              !.cancellationReason = IF isCancelled THEN cancellationReason ELSE NoValue,
              !.error = msg]

\* a throw inside the try block with the record being f and itemsPicked
\* being picked: lines 363-428
Throw(msg, f, picked) ==
    /\ fs' = CatchStatus(f, msg)
    /\ unwound' = IF isCancelled THEN "cancelled" ELSE "failed"
    /\ UnwindRelease(fs', picked)

\* the main sequence parks at await p with the record being f
Goto(p, f) ==
    /\ pc' = p
    /\ fs' = f
    /\ UNCHANGED <<releaseCalls, emailCalls, signalCalls, result, unwound>>

\* ---------------------------------------------------------------- main sequence
MainFrame == UNCHANGED <<fulfillmentRequest, isCancelled, cancellationReason, isPaused,
                         request, prePause, cancels, ovars, ivars, bvars>>

\* "Check for pause" then the cancellation check, ending at the step's sleep:
\* lines 245-256 (picking), 273-284 (quality check), 294-305 (packing)
Checkpoint(f, picked, pausedPc, sleepPc) ==
    IF isPaused THEN Goto(pausedPc, f)
    ELSE IF isCancelled THEN Throw("Fulfillment cancelled", f, picked)
    ELSE Goto(sleepPc, f)

\* the condition of a pause wait resolves: lines 246-256, 274-284, 295-305
LeavePause(msg, sleepPc) ==
    /\ (~isPaused \/ isCancelled)
    /\ IF isCancelled THEN Throw(msg, fs, itemsPicked) ELSE Goto(sleepPc, fs)

\* lines 268-284: the loop is over, quality check begins
QualityCheck(f, picked) ==
    Checkpoint([f EXCEPT !.currentStep = Step("Quality check")], picked,
               "qcPaused", "qcSleep")

LoopHeadOffByOne(f, idx, picked) ==
    IF idx <= fulfillmentRequest.items
    THEN Checkpoint(f, picked, "pickPaused", "pickSleep")
    ELSE QualityCheck(f, picked)

\* line 243: the loop test with index idx, then the body up to its first await
LoopHead(f, idx, picked) ==
    IF idx < fulfillmentRequest.items
    THEN Checkpoint(f, picked, "pickPaused", "pickSleep")
    ELSE QualityCheck(f, picked)

\* lines 227-256: the start condition resolves
WaitStartDone ==
    /\ pc = "waitStart"
    /\ (fulfillmentRequest # Null \/ isCancelled)
    /\ IF isCancelled
       THEN /\ Throw("Fulfillment cancelled", fs, itemsPicked)
            /\ UNCHANGED i
       ELSE /\ i' = 0
            /\ LoopHead([fs EXCEPT !.currentStep = Step("Picking items"),
                                   !.status = "PICKING"], 0, itemsPicked)
    /\ UNCHANGED <<itemsPicked, disturbed>>
    /\ MainFrame

\* lines 246-256
PickPausedDone ==
    /\ pc = "pickPaused"
    /\ LeavePause("Fulfillment cancelled during picking", "pickSleep")
    /\ UNCHANGED <<itemsPicked, i, disturbed>>
    /\ MainFrame

PickSleepDoneNoCount ==
    /\ pc = "pickSleep"
    /\ itemsPicked' = itemsPicked
    /\ i' = i + 1
    /\ LoopHead([fs EXCEPT !.currentStep =
                     PickedStep(itemsPicked, fulfillmentRequest.items)],
                i + 1, itemsPicked)
    /\ UNCHANGED disturbed
    /\ MainFrame

\* lines 261-266, then the next iteration or the quality check
PickSleepDone ==
    /\ pc = "pickSleep"
    /\ itemsPicked' = itemsPicked + 1
    /\ i' = i + 1
    /\ LoopHead([fs EXCEPT !.currentStep =
                     PickedStep(itemsPicked + 1, fulfillmentRequest.items)],
                i + 1, itemsPicked + 1)
    /\ UNCHANGED disturbed
    /\ MainFrame

\* lines 274-284
QcPausedDone ==
    /\ pc = "qcPaused"
    /\ LeavePause("Fulfillment cancelled during quality check", "qcSleep")
    /\ UNCHANGED <<itemsPicked, i, disturbed>>
    /\ MainFrame

\* lines 286-305
QcSleepDone ==
    /\ pc = "qcSleep"
    /\ Checkpoint([fs EXCEPT !.currentStep = Step("Packing items"),
                             !.status = "PACKING"], itemsPicked,
                  "packPaused", "packSleep")
    /\ UNCHANGED <<itemsPicked, i, disturbed>>
    /\ MainFrame

\* lines 295-305
PackPausedDone ==
    /\ pc = "packPaused"
    /\ LeavePause("Fulfillment cancelled during packing", "packSleep")
    /\ UNCHANGED <<itemsPicked, i, disturbed>>
    /\ MainFrame

\* lines 307-339: label generation and ready for pickup
PackSleepDone ==
    /\ pc = "packSleep"
    /\ IF isCancelled
       THEN Throw("Fulfillment cancelled",
                  [fs EXCEPT !.currentStep = Step("Generating shipping label")],
                  itemsPicked)
       ELSE Goto("pickupSleep",
                 [fs EXCEPT !.trackingNumber = "FUL-tracking",
                            !.shippingCarrier = "FastShip Express",
                            !.estimatedDelivery = "in 3 days",
                            !.currentStep = Step("Ready for pickup"),
                            !.status = "READY_TO_SHIP"])
    /\ UNCHANGED <<itemsPicked, i, disturbed>>
    /\ MainFrame

\* lines 339-362: shipped, then the completion signal or the return
PickupSleepDone ==
    /\ pc = "pickupSleep"
    /\ fs' = [fs EXCEPT !.currentStep = Step("Shipped"), !.status = "SHIPPED"]
    /\ IF HasOrderWorkflowId
       THEN /\ signalCalls' = Append(signalCalls, CompletionSignal(fs'))
            /\ pc' = "signalShipped"
            /\ result' = result
       ELSE /\ pc' = "done"
            /\ result' = fs'
            /\ signalCalls' = signalCalls
    /\ UNCHANGED <<releaseCalls, emailCalls, unwound, itemsPicked, i, disturbed>>
    /\ MainFrame

\* an awaited condition or timer of the try block rejects: the error
\* reaches the catch at line 363
MainSequenceError ==
    /\ pc \in PausedPcs \cup SleepPcs \cup {"waitStart"}
    /\ Throw("await rejected", fs, itemsPicked)
    /\ disturbed' = TRUE
    /\ UNCHANGED <<itemsPicked, i>>
    /\ MainFrame

\* ---------------------------------------------------------------- activity completions
ActivityFrame == UNCHANGED <<fs, itemsPicked, i, unwound, disturbed>>

\* line 349 resolves, line 362 returns
SignalShippedSucceeded ==
    /\ pc = "signalShipped"
    /\ signalCalls' = SetOutcome(signalCalls, "ok")
    /\ pc' = "done"
    /\ result' = fs
    /\ UNCHANGED <<releaseCalls, emailCalls>>
    /\ ActivityFrame
    /\ MainFrame

SignalShippedFailedRethrown ==
    /\ pc = "signalShipped"
    /\ LET failed == SetOutcome(signalCalls, "failed")
       IN  IF HasOrderWorkflowId
           THEN /\ signalCalls' = Append(failed, CompletionSignal(fs))
                /\ pc' = "signalFailed"
                /\ result' = result
           ELSE /\ signalCalls' = failed
                /\ pc' = "done"
                /\ result' = fs
    /\ UNCHANGED <<releaseCalls, emailCalls>>
    /\ ActivityFrame
    /\ MainFrame

\* line 349 rejects, lines 354-359 log it, line 362 returns
SignalShippedFailed ==
    /\ pc = "signalShipped"
    /\ signalCalls' = SetOutcome(signalCalls, "failed")
    /\ pc' = "done"
    /\ result' = fs
    /\ UNCHANGED <<releaseCalls, emailCalls>>
    /\ ActivityFrame
    /\ MainFrame

ReleaseDoneRethrown(outcome) ==
    /\ pc = "release"
    /\ releaseCalls' = SetOutcome(releaseCalls, outcome)
    /\ IF outcome = "failed"
       THEN /\ pc' = "done"
            /\ result' = fs
            /\ UNCHANGED <<emailCalls, signalCalls>>
       ELSE UnwindEmail(fs, itemsPicked)
    /\ ActivityFrame
    /\ MainFrame

\* line 376 resolves or rejects (lines 379-384 log it); the email step follows
ReleaseDone(outcome) ==
    /\ pc = "release"
    /\ releaseCalls' = SetOutcome(releaseCalls, outcome)
    /\ UnwindEmail(fs, itemsPicked)
    /\ ActivityFrame
    /\ MainFrame

ReleaseSucceeded == ReleaseDone("ok")
ReleaseFailed == ReleaseDone("failed")

\* line 399 resolves or rejects (lines 403-408 log it); the signalling step follows
EmailDone(outcome) ==
    /\ pc = "email"
    /\ emailCalls' = SetOutcome(emailCalls, outcome)
    /\ UnwindSignal(fs)
    /\ UNCHANGED releaseCalls
    /\ ActivityFrame
    /\ MainFrame

EmailSucceeded == EmailDone("ok")
EmailFailed == EmailDone("failed")

\* line 414 resolves or rejects (lines 419-424 log it), line 427 returns
SignalFailedDone(outcome) ==
    /\ pc = "signalFailed"
    /\ signalCalls' = SetOutcome(signalCalls, outcome)
    /\ pc' = "done"
    /\ result' = fs
    /\ UNCHANGED <<releaseCalls, emailCalls>>
    /\ ActivityFrame
    /\ MainFrame

SignalFailedSucceeded == SignalFailedDone("ok")
SignalFailedFailed == SignalFailedDone("failed")

\* ---------------------------------------------------------------- InventoryActivities
\* InventoryActivities of src/unnamed/part_005.  Every method awaits a delay
\* first and touches the Map afterwards without another await, so a call
\* is one step at the moment it touches the Map.
ReservationIds == {"RES-1", "RES-2", "RES-3"}

\* line 9: new Map()
InventoryInit ==
    /\ reservations = <<>>
    /\ invLast = Null
    /\ releasedIds = {}

\* this.reservations.has(id)
Has(store, id) == id \in DOMAIN store

\* this.reservations.set(id, items), line 28
SetReservation(store, id, items) ==
    [k \in DOMAIN store \cup {id} |-> IF k = id THEN items ELSE store[k]]

DeleteReservationKeepsEntry(store, id) == store

\* this.reservations.delete(id), line 54
DeleteReservation(store, id) ==
    [k \in DOMAIN store \ {id} |-> store[k]]

\* lines 40-42: how confirmReservation(id) ends on the store
ConfirmOutcome(store, id) ==
    IF Has(store, id) THEN "ok" ELSE "Reservation not found"

\* a call as the history keeps it: seq alternates so that two equal calls
\* in a row are two steps, had tells whether the Map held the id before
InventoryCall(op, id, outcome) ==
    [op |-> op, id |-> id, outcome |-> outcome,
     had |-> Has(reservations, id),
     seq |-> IF invLast = Null THEN 0 ELSE 1 - invLast.seq]

InventoryFrame == UNCHANGED <<fvars, ovars, bvars>>

\* reserveInventory, lines 12-32, resolving: the id is new to the caller
ReserveInventory ==
    /\ \E id \in ReservationIds, items \in 1..MaxItems :
          /\ reservations' = SetReservation(reservations, id, items)
          /\ invLast' = InventoryCall("reserveInventory", id, "ok")
          /\ releasedIds' = releasedIds \ {id}
    /\ InventoryFrame

\* reserveInventory rejecting at line 23, before the Map is touched
ReserveInventoryOutOfStock ==
    /\ invLast' = InventoryCall("reserveInventory", NoValue, "out of stock")
    /\ UNCHANGED <<reservations, releasedIds>>
    /\ InventoryFrame

\* confirmReservation, lines 35-46
ConfirmReservation ==
    /\ \E id \in ReservationIds :
          invLast' = InventoryCall("confirmReservation", id,
                                   ConfirmOutcome(reservations, id))
    /\ UNCHANGED <<reservations, releasedIds>>
    /\ InventoryFrame

\* releaseReservation, lines 49-57
ReleaseReservation ==
    /\ \E id \in ReservationIds :
          /\ reservations' = DeleteReservation(reservations, id)
          /\ invLast' = InventoryCall("releaseReservation", id, "ok")
          /\ releasedIds' = releasedIds \cup {id}
    /\ InventoryFrame

InventoryNext ==
    \/ ReserveInventory
    \/ ReserveInventoryOutOfStock
    \/ ConfirmReservation
    \/ ReleaseReservation

\* startFulfillmentWorkflow not called yet (workflow.activities.ts:41)
BridgeInit ==
    /\ bpc = "idle"
    /\ bres = Null
    /\ bcalls = <<>>

\* ---------------------------------------------------------------- processOrder
\* processOrder of src/src/workflows/order.workflow.ts, lines 229-357 (the
\* class OrderWorkflowController, lines 39-185, has the same body).  opc
\* names the await at which it is parked; validateOrder, scheduleShipping and
\* a compensateOrder without refund await nothing, so they are part of the
\* step that calls them.

\* OrderData (src/src/interfaces/index.ts), items by their count
OrderInputs ==
    [orderId : {"", "ORD-1"}, customerId : {"", "CUST-1"}, items : 0..MaxItems]

\* validateOrder, lines 330-339: the message thrown, or NoValue
ValidationError(data) ==
    IF data.orderId = "" \/ data.customerId = "" THEN "Invalid order data"
    ELSE IF data.items = 0 THEN "Order must contain at least one item"
    ELSE NoValue

\* module state, lines 223-227
OrderInit ==
    /\ opc = "start"
    /\ status = "processing"
    /\ currentStep = "validation"
    /\ paymentId = NoValue
    /\ shippingId = NoValue
    /\ error = NoValue
    /\ orderData \in OrderInputs
    /\ reservationId = NoValue
    /\ workflowError = NoValue
    /\ thrown = NoValue
    /\ ocalls = <<>>
    /\ cancelAccepted = FALSE

OCall(name, arg) == [name |-> name, arg |-> arg, outcome |-> "pending"]
OSetOutcome(o) == [ocalls EXCEPT ![Len(ocalls)].outcome = o]

OrderFrame == UNCHANGED <<orderData, cancelAccepted, fvars, ivars, bvars>>

\* lines 346-357 after the catch block: refund when paymentId is set, and
\* nothing else
CompensateOrder(msg, calls) ==
    IF paymentId # NoValue
    THEN /\ ocalls' = Append(calls, OCall("refundPayment", paymentId))
         /\ opc' = "refund"
         /\ thrown' = thrown
    ELSE /\ ocalls' = calls
         /\ opc' = "done"
         /\ thrown' = msg

\* lines 320-326: the catch block, the calls issued so far being calls
OCatch(msg, calls) ==
    /\ status' = "failed"
    /\ error' = msg
    /\ workflowError' = msg
    /\ CompensateOrder(msg, calls)

\* lines 269-281: validation, then the reservation call
OStart ==
    /\ opc = "start"
    /\ IF ValidationError(orderData) # NoValue
       THEN /\ currentStep' = "validation"
            /\ OCatch(ValidationError(orderData), ocalls)
       ELSE /\ status' = "processing"
            /\ currentStep' = "inventory_reservation"
            /\ ocalls' = Append(ocalls, OCall("reserveInventory", orderData.orderId))
            /\ opc' = "reserve"
            /\ UNCHANGED <<error, workflowError, thrown>>
    /\ UNCHANGED <<paymentId, shippingId, reservationId>>
    /\ OrderFrame

\* lines 278-289
OReserveSucceeded ==
    /\ opc = "reserve"
    /\ reservationId' = "RES-ORD-1"
    /\ currentStep' = "payment_processing"
    /\ ocalls' = Append(OSetOutcome("ok"), OCall("processPayment", orderData.orderId))
    /\ opc' = "payment"
    /\ UNCHANGED <<status, paymentId, shippingId, error, workflowError, thrown>>
    /\ OrderFrame

OPaymentSucceededNoId ==
    /\ opc = "payment"
    /\ paymentId' = NoValue
    /\ currentStep' = "inventory_confirmation"
    /\ ocalls' = Append(OSetOutcome("ok"), OCall("confirmReservation", reservationId))
    /\ opc' = "confirm"
    /\ UNCHANGED <<status, shippingId, error, reservationId, workflowError, thrown>>
    /\ OrderFrame

\* lines 285-293
OPaymentSucceeded ==
    /\ opc = "payment"
    /\ paymentId' = "PAY-ORD-1"
    /\ currentStep' = "inventory_confirmation"
    /\ ocalls' = Append(OSetOutcome("ok"), OCall("confirmReservation", reservationId))
    /\ opc' = "confirm"
    /\ UNCHANGED <<status, shippingId, error, reservationId, workflowError, thrown>>
    /\ OrderFrame

\* lines 293-301
OConfirmSucceeded ==
    /\ opc = "confirm"
    /\ currentStep' = "email_notification"
    /\ ocalls' = Append(OSetOutcome("ok"), OCall("sendOrderConfirmation", paymentId))
    /\ opc' = "confirmEmail"
    /\ UNCHANGED <<status, paymentId, shippingId, error, reservationId, workflowError,
                   thrown>>
    /\ OrderFrame

\* lines 297-305
OConfirmationEmailSucceeded ==
    /\ opc = "confirmEmail"
    /\ currentStep' = "shipping_preparation"
    /\ ocalls' = OSetOutcome("ok")
    /\ opc' = "sleep"
    /\ UNCHANGED <<status, paymentId, shippingId, error, reservationId, workflowError,
                   thrown>>
    /\ OrderFrame

\* lines 305-315: the timer fires, scheduleShipping, the notification call
OSleepDone ==
    /\ opc = "sleep"
    /\ shippingId' = "SHIP-ORD-1"
    /\ currentStep' = "shipping_notification"
    /\ ocalls' = Append(ocalls, OCall("sendShippingNotification", "SHIP-ORD-1"))
    /\ opc' = "shipNotify"
    /\ UNCHANGED <<status, paymentId, error, reservationId, workflowError, thrown>>
    /\ OrderFrame

\* lines 311-319
OShippingNotificationSucceeded ==
    /\ opc = "shipNotify"
    /\ status' = "completed"
    /\ currentStep' = "completed"
    /\ ocalls' = OSetOutcome("ok")
    /\ opc' = "done"
    /\ UNCHANGED <<paymentId, shippingId, error, reservationId, workflowError, thrown>>
    /\ OrderFrame

\* an awaited activity of the try block rejects (its retries are used up):
\* lines 320-326.  The message is the name of the call that failed.
OActivityFailed ==
    /\ opc \in {"reserve", "payment", "confirm", "confirmEmail", "shipNotify"}
    /\ OCatch(ocalls[Len(ocalls)].name, OSetOutcome("failed"))
    /\ UNCHANGED <<currentStep, paymentId, shippingId, reservationId>>
    /\ OrderFrame

\* lines 350-353 and 326: the refund resolves or rejects, the caught error
\* is re-thrown
ORefundDone(outcome) ==
    /\ opc = "refund"
    /\ ocalls' = OSetOutcome(outcome)
    /\ thrown' = workflowError
    /\ opc' = "done"
    /\ UNCHANGED <<status, currentStep, paymentId, shippingId, error, reservationId,
                   workflowError>>
    /\ OrderFrame

ORefundSucceeded == ORefundDone("ok")
ORefundFailed == ORefundDone("failed")

\* `Cancelled: ${reason}`
CancelledMessage(reason) ==
    IF reason = "customer request" THEN "Cancelled: customer request"
    ELSE "Cancelled: out of stock"

\* setHandler(cancelOrderSignal, ...), lines 231-238.  The code up to the
\* first activity call runs when the workflow starts, so signals are handled
\* from the first await on.
OCancelSignal ==
    /\ opc \notin {"start", "done"}
    /\ \E reason \in Reasons :
          IF status = "completed"
          THEN UNCHANGED <<status, error>>
          ELSE /\ status' = "cancelled"
               /\ error' = CancelledMessage(reason)
    /\ cancelAccepted' = TRUE
    /\ UNCHANGED <<opc, currentStep, paymentId, shippingId, orderData, reservationId,
                   workflowError, thrown, ocalls, fvars, ivars, bvars>>

OrderProgress ==
    \/ OStart
    \/ OReserveSucceeded
    \/ OPaymentSucceeded
    \/ OConfirmSucceeded
    \/ OConfirmationEmailSucceeded
    \/ OSleepDone
    \/ OShippingNotificationSucceeded
    \/ OActivityFailed
    \/ ORefundSucceeded
    \/ ORefundFailed

OrderNext ==
    \/ OrderProgress
    \/ OCancelSignal

\* processOrder alone, the fulfillment workflow not started
OrderSpecInit ==
    /\ OrderInit
    /\ FulfillmentInit
    /\ InventoryInit
    /\ BridgeInit
    /\ request = [items |-> 1, shippingAddress |-> "addr-A",
                  reservationIds |-> <<>>, orderWorkflowId |-> NoValue]

OrderSpec == OrderSpecInit /\ [][OrderNext]_vars

\* activities end (their timeouts and retry limits are finite) and timers fire
OrderFairSpec == OrderSpec /\ WF_vars(OrderProgress)

\* fulfillmentWorkflow alone, processOrder not started
Init ==
    /\ FulfillmentInit
    /\ OrderInit
    /\ InventoryInit
    /\ BridgeInit
    /\ orderData = [orderId |-> "ORD-1", customerId |-> "CUST-1", items |-> 1]

\* ---------------------------------------------------------------- specification
Signal ==
    \/ StartSignal
    \/ PauseSignal
    \/ ResumeSignal
    \/ CancelSignal
    \/ UpdateShippingAddressSignal

MainStep ==
    \/ WaitStartDone
    \/ PickPausedDone
    \/ PickSleepDone
    \/ QcPausedDone
    \/ QcSleepDone
    \/ PackPausedDone
    \/ PackSleepDone
    \/ PickupSleepDone

ActivityDone ==
    \/ SignalShippedSucceeded
    \/ SignalShippedFailed
    \/ ReleaseSucceeded
    \/ ReleaseFailed
    \/ EmailSucceeded
    \/ EmailFailed
    \/ SignalFailedSucceeded
    \/ SignalFailedFailed

Next ==
    \/ Signal
    \/ MainStep
    \/ ActivityDone
    \/ MainSequenceError

Spec == Init /\ [][Next]_vars

\* ---------------------------------------------------------------- runs with cancel only
MaxCancels == 2

\* the first delivery of startFulfillment
FirstStart ==
    /\ fulfillmentRequest = Null
    /\ StartSignal

\* setHandler(cancelFulfillmentSignal, ...), lines 171-177, for a cancel that
\* is delivered up to MaxCancels times with one and the same reason
CancelDelivery ==
    /\ Parked
    /\ cancels < MaxCancels
    /\ \E reason \in (IF isCancelled THEN {cancellationReason} ELSE Reasons) :
          /\ isCancelled' = TRUE
          /\ cancellationReason' = reason
          /\ fs' = [fs EXCEPT !.status = "CANCELLED",
                              !.cancellationReason = reason]
    /\ cancels' = cancels + 1
    /\ prePause' = Null
    /\ disturbed' = TRUE
    /\ UNCHANGED <<fulfillmentRequest, isPaused, pc, itemsPicked, i, releaseCalls,
                   emailCalls, signalCalls, result, request, unwound, ovars,
                   ivars, bvars>>

\* the signals are one startFulfillment and the deliveries of one cancel
CancelNext ==
    \/ FirstStart
    \/ CancelDelivery
    \/ WaitStartDone
    \/ PickSleepDone
    \/ QcSleepDone
    \/ PackSleepDone
    \/ PickupSleepDone
    \/ ActivityDone

CancelSpec == Init /\ [][CancelNext]_vars

\* ---------------------------------------------------------------- runs without pause or cancel
\* timers fire and the completion-signal activity ends
HappyProgress ==
    \/ WaitStartDone
    \/ PickSleepDone
    \/ QcSleepDone
    \/ PackSleepDone
    \/ PickupSleepDone
    \/ SignalShippedSucceeded

\* one startFulfillment, no pause, no cancel, every collaborator succeeds
HappyNext ==
    \/ FirstStart
    \/ UpdateShippingAddressSignal
    \/ HappyProgress

HappySpec == Init /\ [][HappyNext]_vars /\ WF_vars(HappyProgress)

\* ---------------------------------------------------------------- runs with pause and cancel, no resume
SuspendProgress ==
    \/ MainStep
    \/ ActivityDone

\* startFulfillment once, pause and cancel at any time, never a resume
SuspendNext ==
    \/ FirstStart
    \/ PauseSignal
    \/ CancelSignal
    \/ SuspendProgress

\* timers fire, conditions that hold resolve, activities end
SuspendSpec == Init /\ [][SuspendNext]_vars /\ WF_vars(SuspendProgress)

\* ---------------------------------------------------------------- InventoryActivities alone
InventorySpecInit ==
    /\ Init
    /\ request = [items |-> 1, shippingAddress |-> "addr-A",
                  reservationIds |-> <<>>, orderWorkflowId |-> NoValue]

InventorySpec == InventorySpecInit /\ [][InventoryNext]_vars

\* ---------------------------------------------------------------- startFulfillmentWorkflow
\* WorkflowActivityService.startFulfillmentWorkflow, lines 41-92, with the
\* fulfillmentWorkflow instance it starts.  The instance exists once
\* temporal.startWorkflow has resolved.
BCall(op) == [op |-> op, outcome |-> "pending"]
BSetOutcome(o) == [bcalls EXCEPT ![Len(bcalls)].outcome = o]
BResult(started, err) == [started |-> started, error |-> err, threw |-> FALSE]

BridgeFrame == UNCHANGED <<fvars, ovars, ivars>>

\* lines 44-61: the call of temporal.startWorkflow
BInvoke ==
    /\ bpc = "idle"
    /\ bcalls' = <<BCall("startWorkflow")>>
    /\ bpc' = "startWorkflow"
    /\ UNCHANGED bres
    /\ BridgeFrame

\* line 54 resolves, line 64 waits 500 ms
BStartWorkflowSucceeded ==
    /\ bpc = "startWorkflow"
    /\ bcalls' = BSetOutcome("ok")
    /\ bpc' = "timer"
    /\ UNCHANGED bres
    /\ BridgeFrame

\* line 54 rejects: catch, lines 81-91
BStartWorkflowFailed ==
    /\ bpc = "startWorkflow"
    /\ bcalls' = BSetOutcome("failed")
    /\ bpc' = "returned"
    /\ bres' = BResult(FALSE, "startWorkflow failed")
    /\ BridgeFrame

\* line 64 is over, line 67 calls temporal.signalWorkflow
BTimerDone ==
    /\ bpc = "timer"
    /\ bcalls' = Append(bcalls, BCall("signalWorkflow"))
    /\ bpc' = "signalWorkflow"
    /\ UNCHANGED bres
    /\ BridgeFrame

\* the startFulfillment signal of line 67 reaches the instance
BDeliver ==
    /\ bpc = "signalWorkflow"
    /\ FirstStart

\* line 67 resolves, lines 73-80 return started: true
BSignalSucceeded ==
    /\ bpc = "signalWorkflow"
    /\ fulfillmentRequest # Null
    /\ bcalls' = BSetOutcome("ok")
    /\ bpc' = "returned"
    /\ bres' = BResult(TRUE, NoValue)
    /\ BridgeFrame

\* line 67 rejects: catch, lines 81-91
BSignalFailed ==
    /\ bpc = "signalWorkflow"
    /\ bcalls' = BSetOutcome("failed")
    /\ bpc' = "returned"
    /\ bres' = BResult(FALSE, "signalWorkflow failed")
    /\ BridgeFrame

\* the call, and the instance it started running on its own
BridgeNext ==
    \/ BInvoke
    \/ BStartWorkflowSucceeded
    \/ BStartWorkflowFailed
    \/ BTimerDone
    \/ BDeliver
    \/ BSignalSucceeded
    \/ BSignalFailed
    \/ HappyProgress

BridgeSpec == Init /\ [][BridgeNext]_vars

\* ---------------------------------------------------------------- claims
Returned == pc = "done"

\* C1: a run that ends with a stored request whose orderWorkflowId is set has
\* issued exactly one 'fulfillmentCompleted' signal call, addressed to that
\* orderWorkflowId; a run with no stored request or no orderWorkflowId has
\* issued none; and no run ever has more than one such call.
CompletionSignalExactlyOnce ==
    /\ Len(signalCalls) <= 1
    /\ Returned =>
          IF HasOrderWorkflowId
          THEN /\ Len(signalCalls) = 1
               /\ signalCalls[1].fulfillmentWorkflowId = fulfillmentRequest.orderWorkflowId
               /\ signalCalls[1].signalName = "fulfillmentCompleted"
          ELSE signalCalls = <<>>

CompletionSignalExactlyOnceWitness ==
    /\ Returned
    /\ HasOrderWorkflowId
    /\ Len(signalCalls) = 1
    /\ signalCalls[1].outcome = "failed"
    /\ result.status = "SHIPPED"

\* C2: every completion signal carries a snapshot whose status is terminal
\* and equal to the status of the record the workflow returns.
SnapshotTerminalAndFinal ==
    Returned =>
        \A k \in 1..Len(signalCalls) :
            /\ signalCalls[k].args.status \in TerminalStatuses
            /\ signalCalls[k].args.status = result.status

\* C3: while isPaused is true the status is never SHIPPED (it is an ongoing
\* status, CANCELLED or FAILED).
PausedOnlyWhileOngoing ==
    (isPaused \/ fs.isPaused) =>
        fs.status \in {"WAITING", "PICKING", "PACKING", "READY_TO_SHIP", "PAUSED",
                       "CANCELLED", "FAILED"}

\* C4: a step of the main sequence that ends at a boundary (before an item
\* pick, the quality check, packing, label generation or the pickup wait)
\* while isPaused is true and no cancellation was handled leaves the process
\* suspended; and a process suspended that way has status PAUSED.
PauseCheckpointContract ==
    /\ [][(/\ pc \in {"waitStart", "pickSleep", "qcSleep", "packSleep"}
           /\ pc' # pc
           /\ isPaused
           /\ ~isCancelled
           /\ unwound' = "no")
          => pc' \in PausedPcs]_vars
    /\ []((pc \in PausedPcs /\ isPaused /\ ~isCancelled) => fs.status = "PAUSED")

\* C5: a resume handled right after a pause (no other signal in between)
\* puts back the in-progress status the record had before the pause and
\* leaves isPaused false.
ResumeRestoresPriorStatus ==
    [][(/\ ResumeSignal
        /\ prePause # Null
        /\ prePause.status \in InProgressStatuses)
       => (/\ fs'.status = prePause.status
           /\ ~fs'.isPaused
           /\ ~isPaused')]_vars

\* C6 (its safety half): when a paused process is resumed and no
\* cancellation was handled, itemsPicked and the position in the main
\* sequence are what they were when the pause was handled.
PauseResumeRoundTrip ==
    [][(/\ ResumeSignal
        /\ prePause # Null
        /\ ~isCancelled)
       => (/\ itemsPicked = prePause.itemsPicked
           /\ pc = prePause.pc)]_vars

\* a < b as JavaScript compares numbers: false when either is NaN
Smaller(a, b) ==
    \/ a.kind = "number" /\ b.kind = "number" /\ a.val < b.val
    \/ a.kind = "number" /\ b.kind = "Infinity"

\* C7: on a run with no signal after the first startFulfillment (and no
\* error), the percentage of getProgress never gets smaller.
ProgressMonotone ==
    [][~disturbed' => ~Smaller(Percentage', Percentage)]_vars

\* C8: a run cancelled while WAITING that never received startFulfillment
\* returns CANCELLED with the reason, and has issued no release, email or
\* completion-signal call.
CancelBeforeStartNoCalls ==
    (Returned /\ fulfillmentRequest = Null /\ isCancelled) =>
        /\ result.status = "CANCELLED"
        /\ result.cancellationReason = cancellationReason
        /\ releaseCalls = <<>>
        /\ emailCalls = <<>>
        /\ signalCalls = <<>>

CancelBeforeStartNoCallsWitness ==
    /\ Returned
    /\ fulfillmentRequest = Null
    /\ isCancelled
    /\ result.status = "CANCELLED"
    /\ fs.error = "Fulfillment cancelled"

CancellationMessages ==
    {"Fulfillment cancelled", "Fulfillment cancelled during picking",
     "Fulfillment cancelled during quality check",
     "Fulfillment cancelled during packing"}

\* C9: a run with a stored request that ended by a cancellation observed at
\* a checkpoint returns CANCELLED, with exactly one releaseReservation call
\* carrying all the reservation ids when the request has any, and no
\* release call when it has none.
CancelAfterStartReleasesOnce ==
    (Returned /\ fulfillmentRequest # Null /\ fs.error \in CancellationMessages) =>
        /\ result.status = "CANCELLED"
        /\ IF Len(fulfillmentRequest.reservationIds) > 0
           THEN /\ Len(releaseCalls) = 1
                /\ releaseCalls[1].args = fulfillmentRequest.reservationIds
           ELSE releaseCalls = <<>>

\* C10: a returned run has issued exactly one cancellation email if the
\* catch block classified it as cancelled and itemsPicked > 0, and none if
\* it was classified as cancelled with itemsPicked = 0, if it failed and no
\* cancel was ever handled, or if it did not unwind at all.
CancellationEmailOnlyAfterPicking ==
    /\ Len(emailCalls) <= 1
    /\ Returned =>
          /\ (unwound = "cancelled" /\ itemsPicked > 0) => Len(emailCalls) = 1
          /\ (unwound = "cancelled" /\ itemsPicked = 0) => emailCalls = <<>>
          /\ (unwound = "failed" /\ ~isCancelled) => emailCalls = <<>>
          /\ unwound = "no" => emailCalls = <<>>

CancellationEmailOnlyAfterPickingWitness ==
    /\ Returned
    /\ unwound = "cancelled"
    /\ itemsPicked > 0
    /\ itemsPicked < fulfillmentRequest.items
    /\ Len(emailCalls) = 1

\* ---------------------------------------------------------------- progress query of processOrder
\* lines 254-263
OrderSteps ==
    <<"validation", "inventory_reservation", "payment_processing",
      "inventory_confirmation", "email_notification", "shipping_preparation",
      "shipping_notification", "completed">>

\* steps.indexOf(step), line 265: 0-based, -1 when absent
OrderIndexOf(step) ==
    IF \E j \in 1..Len(OrderSteps) : OrderSteps[j] = step
    THEN (CHOOSE j \in 1..Len(OrderSteps) : OrderSteps[j] = step) - 1
    ELSE -1

OrderProgressOfWholeLength(step) ==
    Round(OrderIndexOf(step) * 100, Len(OrderSteps))

\* line 266: Math.round((currentIndex / (steps.length - 1)) * 100)
OrderProgressOf(step) ==
    Round(OrderIndexOf(step) * 100, Len(OrderSteps) - 1)

\* ---------------------------------------------------------------- claims on processOrder
OrderDone == opc = "done"
OrderTerminalStatuses == {"completed", "cancelled", "failed"}
NotificationCalls == {"sendOrderConfirmation", "sendShippingNotification"}

CallsNamed(name) == {k \in 1..Len(ocalls) : ocalls[k].name = name}
FailedCalls == {k \in 1..Len(ocalls) : ocalls[k].outcome = "failed"}

\* C15: a run whose payment call failed after the reservation was obtained
\* ends with status failed and has issued exactly one releaseReservation
\* call for the reservation id.
PaymentFailureReleasesReservation ==
    (OrderDone /\ CallsNamed("processPayment") \cap FailedCalls # {}) =>
        /\ status = "failed"
        /\ Cardinality({k \in CallsNamed("releaseReservation") :
                            ocalls[k].arg = reservationId}) = 1

\* C16: once a cancelOrder signal was accepted, the main sequence issues no
\* further forward call (only compensation), and the run ends cancelled.
CancelStopsForwardSteps ==
    /\ [][(cancelAccepted /\ Len(ocalls') > Len(ocalls))
          => ocalls'[Len(ocalls')].name = "refundPayment"]_vars
    /\ []((OrderDone /\ cancelAccepted) => status = "cancelled")

\* C17: a terminal status (completed, cancelled, failed) never changes.
OrderTerminalStatusStable ==
    [][(status \in OrderTerminalStatuses) => (status' = status)]_vars

\* C18: a failed notification call leaves the status as it was (never
\* failed) and triggers no compensation (no refund call).
NotificationFailureIgnored ==
    (\E k \in FailedCalls : ocalls[k].name \in NotificationCalls) =>
        /\ status # "failed"
        /\ CallsNamed("refundPayment") = {}

\* C19: a run whose refund call failed still ends; its status is failed and
\* the error it reports and re-throws is the error of the step that failed.
RefundFailureKeepsOriginalError ==
    (OrderDone /\ CallsNamed("refundPayment") \cap FailedCalls # {}) =>
        /\ status = "failed"
        /\ error = workflowError
        /\ thrown = workflowError

HappyOrderCalls ==
    <<"reserveInventory", "processPayment", "confirmReservation",
      "sendOrderConfirmation", "sendShippingNotification">>

HappyOrderEnd ==
    /\ OrderDone
    /\ status = "completed"
    /\ currentStep = "completed"
    /\ paymentId # NoValue
    /\ shippingId # NoValue
    /\ thrown = NoValue
    /\ Len(ocalls) = Len(HappyOrderCalls)
    /\ \A k \in 1..Len(ocalls) :
          ocalls[k].name = HappyOrderCalls[k] /\ ocalls[k].outcome = "ok"

\* C20: a run on a valid order, with no signal and no failing call,
\* eventually ends completed with paymentId and shippingId set, the reserve,
\* charge, confirm, order-confirmation and shipping-notification calls
\* having happened once each in that order.
OrderHappyPath ==
    <>(\/ ValidationError(orderData) # NoValue
       \/ cancelAccepted
       \/ FailedCalls # {}
       \/ HappyOrderEnd)

OrderHappyPathWitness ==
    /\ HappyOrderEnd
    /\ ~cancelAccepted
    /\ orderData.items = MaxItems

\* ---------------------------------------------------------------- claims on fulfillmentWorkflow, continued
\* C11: a returned run to which cancel(reason) was delivered once or twice
\* (and no other signal than startFulfillment) has status CANCELLED with
\* that reason, and at most one release, email and completion-signal call,
\* whether the cancel came once or twice.
CancelTwiceSameOutcome ==
    (Returned /\ cancels >= 1) =>
        /\ result.status = "CANCELLED"
        /\ result.cancellationReason = cancellationReason
        /\ Len(releaseCalls) <= 1
        /\ Len(emailCalls) <= 1
        /\ Len(signalCalls) <= 1

\* the main-sequence statuses in their order
StatusRank(s) ==
    CASE s = "WAITING" -> 0
      [] s = "PICKING" -> 1
      [] s = "PACKING" -> 2
      [] s = "READY_TO_SHIP" -> 3
      [] s = "SHIPPED" -> 4
      [] OTHER -> -1

\* C12: a startFulfillment delivered again, when the request is already
\* stored, does not move the status backward and does not change
\* itemsPicked.
StartRedeliveryHarmless ==
    [][(StartSignal /\ fulfillmentRequest # Null)
       => (/\ ~(StatusRank(fs.status) > StatusRank(fs'.status)
                /\ StatusRank(fs'.status) >= 0)
           /\ itemsPicked' = itemsPicked)]_vars

\* the main sequence has set SHIPPED (line 343) or has entered the catch
\* block (line 365)
ReachedTerminal == pc = "signalShipped" \/ unwound # "no"

\* C13: once the main sequence has reached SHIPPED, CANCELLED or FAILED, a
\* signal handled afterwards (a step that leaves the main sequence where
\* it is parked) changes no field of the record.
TerminalRecordImmutable ==
    [][(ReachedTerminal /\ pc' = pc) => (fs' = fs)]_vars

HappyTransitions ==
    {<<"WAITING", "PICKING">>, <<"PICKING", "PACKING">>,
     <<"PACKING", "READY_TO_SHIP">>, <<"READY_TO_SHIP", "SHIPPED">>}

\* C14: with one startFulfillment for n >= 1 items, no pause, no cancel and
\* every collaborator succeeding, the run eventually returns SHIPPED with
\* itemsPicked = n; the status only moves WAITING, PICKING, PACKING,
\* READY_TO_SHIP, SHIPPED in that order; and trackingNumber, shippingCarrier
\* and estimatedDelivery are set whenever the status is READY_TO_SHIP or
\* SHIPPED.
FulfillmentHappyPath ==
    /\ (fulfillmentRequest # Null /\ request.items >= 1)
          ~> (/\ Returned
              /\ result.status = "SHIPPED"
              /\ itemsPicked = request.items)
    /\ [][(fs'.status # fs.status)
          => (<<fs.status, fs'.status>> \in HappyTransitions)]_vars
    /\ [](fs.status \in {"READY_TO_SHIP", "SHIPPED"} =>
            /\ fs.trackingNumber # NoValue
            /\ fs.shippingCarrier # NoValue
            /\ fs.estimatedDelivery # NoValue)

FulfillmentHappyPathWitness ==
    /\ Returned
    /\ result.status = "SHIPPED"
    /\ request.items = MaxItems
    /\ itemsPicked = MaxItems
    /\ result.trackingNumber # NoValue
    /\ unwound = "no"

\* ---------------------------------------------------------------- claims on the catch block and the queries
\* C21: when the catch block is entered it sets FAILED if no cancel was
\* handled and CANCELLED with the reason if one was, and goes on to the
\* release, email and signalling steps; and the run returns the status the
\* catch block chose.
ErrorClassification ==
    /\ [][(unwound = "no" /\ unwound' # "no")
          => (/\ fs'.status = IF isCancelled THEN "CANCELLED" ELSE "FAILED"
              /\ isCancelled => fs'.cancellationReason = cancellationReason
              /\ pc' \in {"release", "email", "signalFailed", "done"})]_vars
    /\ []((Returned /\ unwound = "failed") => result.status = "FAILED")
    /\ []((Returned /\ unwound = "cancelled") =>
             /\ result.status = "CANCELLED"
             /\ result.cancellationReason = cancellationReason)

LastFailed(calls) == Len(calls) > 0 /\ calls[Len(calls)].outcome = "failed"

\* the unwind step after the release step, lines 387-427
AfterRelease ==
    IF ShouldSendCancellation(itemsPicked) THEN "email"
    ELSE IF HasOrderWorkflowId THEN "signalFailed" ELSE "done"

\* the unwind step after the email step, lines 411-427
AfterEmail == IF HasOrderWorkflowId THEN "signalFailed" ELSE "done"

\* C22: a releaseReservation call that fails is followed by the email step
\* (or, with no email due, the signalling step) exactly as a successful one
\* is; a failing email call is followed by the signalling step; a failing
\* completion-signal call changes no field of the record; and each of them
\* ends in the return of the record, never in a throw.
UnwindStepsIndependent ==
    [][/\ (pc = "release" /\ pc' # pc /\ LastFailed(releaseCalls'))
          => (/\ pc' = AfterRelease
              /\ pc' = "email" => Len(emailCalls') = Len(emailCalls) + 1
              /\ pc' = "signalFailed" => Len(signalCalls') = Len(signalCalls) + 1)
       /\ (pc = "email" /\ pc' # pc /\ LastFailed(emailCalls'))
          => (/\ pc' = AfterEmail
              /\ pc' = "signalFailed" => Len(signalCalls') = Len(signalCalls) + 1)
       /\ (pc \in {"signalShipped", "signalFailed"} /\ pc' # pc
              /\ LastFailed(signalCalls'))
          => (fs' = fs /\ pc' = "done")
       /\ (pc # "done" /\ pc' = "done") => result' = fs']_vars

UnwindStepsIndependentWitness ==
    /\ Returned
    /\ LastFailed(releaseCalls)
    /\ LastFailed(emailCalls)
    /\ LastFailed(signalCalls)
    /\ result = fs

\* C23: a process suspended at a pause wait that has handled a cancel (and
\* never a resume) eventually returns with status CANCELLED; while it is
\* suspended and no cancel is handled it stays where it is and picks no
\* item.
SuspendedThenCancelled ==
    /\ (pc \in PausedPcs /\ isCancelled)
          ~> (Returned /\ result.status = "CANCELLED")
    /\ [][(pc \in PausedPcs /\ isPaused /\ ~isCancelled /\ ~isCancelled')
          => (pc' = pc /\ itemsPicked' = itemsPicked)]_vars

\* C24: updateShippingAddress with no stored request changes nothing of
\* the workflow's state; with a stored request it changes the request's
\* shippingAddress and the step label and nothing else.
UpdateShippingAddressFrame ==
    [][UpdateShippingAddressSignal
       => (/\ UNCHANGED <<pc, isPaused, isCancelled, cancellationReason,
                          itemsPicked, i, releaseCalls, emailCalls, signalCalls,
                          result>>
           /\ IF fulfillmentRequest = Null
              THEN fulfillmentRequest' = Null /\ fs' = fs
              ELSE /\ fs' = [fs EXCEPT !.currentStep =
                                           Step("Shipping address updated")]
                   /\ \E a \in Addresses :
                         fulfillmentRequest' =
                            [fulfillmentRequest EXCEPT !.shippingAddress = a])]_vars

UpdateShippingAddressFrameWitness ==
    /\ fulfillmentRequest # Null
    /\ fulfillmentRequest.shippingAddress = "addr-B"
    /\ fs.currentStep = Step("Shipping address updated")
    /\ fs.status = "PACKING"
    /\ pc = "packSleep"
    /\ itemsPicked = MaxItems

\* C25: the percentage of getProgress is an integer from 0 to 100, it is 0
\* while no request is stored, and it is 100 when the step is 'Shipped'.
ProgressPercentageInRange ==
    /\ Percentage.kind = "number"
    /\ Percentage.val \in 0..100
    /\ fulfillmentRequest = Null => Percentage = Num(0)
    /\ fs.currentStep = Step("Shipped") => Percentage = Num(100)

\* getProgress of processOrder, lines 253-267
OrderGetProgress == OrderProgressOf(currentStep)

\* C26: getProgress of processOrder is an integer in 0..100, it is 100
\* exactly when currentStep is 'completed', it never decreases, and once
\* the catch block is entered it keeps the value of the step that failed.
OrderProgressContract ==
    /\ [](OrderGetProgress \in 0..100)
    /\ [](OrderGetProgress = 100 <=> currentStep = "completed")
    /\ [][OrderGetProgress' >= OrderGetProgress]_vars
    /\ [][(workflowError' # NoValue) => (OrderGetProgress' = OrderGetProgress)]_vars

OrderProgressContractWitness ==
    /\ OrderDone
    /\ status = "failed"
    /\ workflowError = "sendOrderConfirmation"
    /\ OrderGetProgress = 57

\* C27: releaseReservation always resolves; on an id the Map does not hold
\* it leaves the Map as it is; deleting twice gives the Map that deleting
\* once gives; and confirmReservation of an id released and not reserved
\* again rejects with 'not found'.
ReleaseIdempotent ==
    /\ []((invLast # Null /\ invLast.op = "releaseReservation") =>
             invLast.outcome = "ok")
    /\ [](\A id \in ReservationIds :
             DeleteReservation(DeleteReservation(reservations, id), id)
                = DeleteReservation(reservations, id))
    /\ [](\A id \in releasedIds :
             /\ ~Has(reservations, id)
             /\ ConfirmOutcome(reservations, id) = "Reservation not found")
    /\ [][(/\ invLast' # invLast
           /\ invLast'.op = "releaseReservation"
           /\ ~Has(reservations, invLast'.id))
          => (reservations' = reservations)]_vars
    /\ [][(/\ invLast' # invLast
           /\ invLast'.op = "confirmReservation"
           /\ invLast'.id \in releasedIds)
          => (invLast'.outcome = "Reservation not found")]_vars

ReleaseIdempotentWitness ==
    /\ invLast # Null
    /\ invLast.op = "confirmReservation"
    /\ invLast.id \in releasedIds
    /\ invLast.outcome = "Reservation not found"
    /\ reservations # <<>>

\* C28: a run that handled a cancel returns CANCELLED, and no completion
\* signal issued after a cancel was handled reports SHIPPED.
CancelledNeverShipped ==
    /\ []((Returned /\ isCancelled) => result.status = "CANCELLED")
    /\ [][(isCancelled /\ Len(signalCalls') > Len(signalCalls))
          => (signalCalls'[Len(signalCalls')].args.status # "SHIPPED")]_vars

\* temporal.startWorkflow resolved: the instance exists
InstanceStarted ==
    \E k \in 1..Len(bcalls) :
        bcalls[k].op = "startWorkflow" /\ bcalls[k].outcome = "ok"

\* the instance waits at line 227 and has handled neither start nor cancel
WaitingUnsignalled ==
    /\ InstanceStarted
    /\ pc = "waitStart"
    /\ fulfillmentRequest = Null
    /\ ~isCancelled

\* C29: startFulfillmentWorkflow does not throw; it returns started = true
\* only if startWorkflow and signalWorkflow both resolved; and when it
\* returns started = false it leaves no instance waiting for a start or
\* cancel signal that was never sent.
BridgeStartContract ==
    bpc = "returned" =>
        /\ ~bres.threw
        /\ bres.started =>
              /\ Len(bcalls) = 2
              /\ \A k \in 1..Len(bcalls) : bcalls[k].outcome = "ok"
        /\ ~bres.started => ~WaitingUnsignalled

\* C30: itemsPicked is between 0 and the item count of the stored request
\* (0 while none is stored), it never decreases, and a step of the main
\* sequence that sets PACKING, READY_TO_SHIP or SHIPPED is taken with
\* itemsPicked equal to the item count.
ItemsPickedBounds ==
    /\ [](itemsPicked \in
             0..(IF fulfillmentRequest = Null THEN 0 ELSE fulfillmentRequest.items))
    /\ [][itemsPicked' >= itemsPicked]_vars
    /\ [][(/\ pc' # pc
           /\ fs'.status # fs.status
           /\ fs'.status \in {"PACKING", "READY_TO_SHIP", "SHIPPED"})
          => (itemsPicked' = fulfillmentRequest'.items)]_vars

ItemsPickedBoundsWitness ==
    /\ pc = "pickupSleep"
    /\ fs.status = "READY_TO_SHIP"
    /\ fulfillmentRequest.items = MaxItems
    /\ itemsPicked = MaxItems
    /\ disturbed

====
